---- MODULE Spec2Model ----
(***************************************************************************)
(* Model of app_streamlit.py: the CIAP2 <-> CID10 converter.               *)
(*                                                                         *)
(* A Python str is a sequence of one-character strings.  The two values    *)
(* that are not strings, None and the float NaN pandas stores for an empty *)
(* CSV cell, are one-element sequences whose element is no character, so   *)
(* that they compare unequal to every string.                              *)
(***************************************************************************)
EXTENDS Integers, Sequences, FiniteSets, TLC

VARIABLES
    source,      \* what pd.read_csv returned: [columns, rows]
    df,          \* df_base, the table load_base returned (<<>> before the load)
    loadError,   \* "none", or "ValueError" once load_base has raised
    pc,          \* where the program is
    mode,        \* the st.radio choice
    raw_text,    \* the st.text_area content (the text of a direct call, if any)
    codes,       \* split_inputs(raw_text), or the codes of a direct lookup call
    df_out,      \* what lookup returned
    rendered,    \* the st.warning / st.info boxes of the last run, in order
    normalized   \* what normalize_code returned

vars == <<source, df, loadError, pc, mode, raw_text, codes, df_out, rendered, normalized>>

----------------------------------------------------------------------------
(* Bounds *)

MaxLen == 3     \* length of the strings given to normalize_code and split_inputs
MaxRows == 2    \* rows of the CSV
MaxCodes == 2   \* codes of one direct lookup call

----------------------------------------------------------------------------
(* Values *)

None == <<"<None>">>
NaN == <<"<NaN>">>

\* The characters str.strip() removes from both ends.
Whitespace == {" ", "\t", "\n", "\r"}

\* The character class of re.split(r"[,\n;\t]+", text).
Separators == {",", "\n", ";", "\t"}

\* str.upper() on one character.
ToUpper(ch) ==
    CASE ch = "a" -> "A"
      [] ch = "b" -> "B"
      [] ch = "c" -> "C"
      [] ch = "n" -> "N"
      [] ch = "z" -> "Z"
      [] OTHER -> ch

\* "NAO ENCONTRADO" (the source spells it with A-tilde, here "A~").
NAO_ENCONTRADO ==
    <<"N", "A~", "O", " ", "E", "N", "C", "O", "N", "T", "R", "A", "D", "O">>

\* The two st.radio options (the source spells the arrow U+2192).
CIAP_TO_CID == "CIAP -> CID"
CID_TO_CIAP == "CID -> CIAP"
Modes == {CIAP_TO_CID, CID_TO_CIAP}

----------------------------------------------------------------------------
(* normalize_code *)

\* (value or ""): None and "" are falsy.
OrEmpty(value) == IF value = None \/ value = <<>> THEN <<>> ELSE value

RECURSIVE LStrip(_)
LStrip(s) ==
    IF s # <<>> /\ Head(s) \in Whitespace THEN LStrip(Tail(s)) ELSE s

RECURSIVE RStrip(_)
RStrip(s) ==
    IF s # <<>> /\ s[Len(s)] \in Whitespace
    THEN RStrip(SubSeq(s, 1, Len(s) - 1))
    ELSE s

\* A strip that removes at most one whitespace character from each end.
StripOnce(s) ==
    LET l == IF s # <<>> /\ Head(s) \in Whitespace THEN Tail(s) ELSE s
    IN  IF l # <<>> /\ l[Len(l)] \in Whitespace
        THEN SubSeq(l, 1, Len(l) - 1)
        ELSE l

\* str.strip()
Strip(s) == RStrip(LStrip(s))

\* str.upper()
Upper(s) == [i \in 1..Len(s) |-> ToUpper(s[i])]

IsNotSpace(ch) == ch # " "

\* str.replace(" ", "")
ReplaceSpace(s) == SelectSeq(s, IsNotSpace)

normalize_code(value) == ReplaceSpace(Upper(Strip(OrEmpty(value))))

----------------------------------------------------------------------------
(* split_inputs *)

\* The least index from i on whose character is (sep = TRUE) or is not
\* (sep = FALSE) a separator; Len(text) + 1 when there is none.
RECURSIVE Scan(_, _, _)
Scan(text, i, sep) ==
    IF i > Len(text) \/ ((text[i] \in Separators) = sep)
    THEN i
    ELSE Scan(text, i + 1, sep)

\* re.split(r"[,\n;\t]+", text), from index i on: the fragment up to the next
\* run of separators, then the split of what follows the run.  A text that
\* starts or ends with a separator gives an empty first or last fragment.
RECURSIVE SplitFrom(_, _)
SplitFrom(text, i) ==
    LET j == Scan(text, i, TRUE)
    IN  IF j > Len(text)
        THEN <<SubSeq(text, i, Len(text))>>
        ELSE <<SubSeq(text, i, j - 1)>> \o SplitFrom(text, Scan(text, j, FALSE))

ReSplit(text) == SplitFrom(text, 1)

NormalizesNonEmpty(p) == normalize_code(p) # <<>>

\* split_inputs without its "if normalize_code(p)" filter.
split_inputs_unfiltered(text) ==
    IF text = None \/ text = <<>>
    THEN <<>>
    ELSE LET parts == ReSplit(text)
         IN  [i \in 1..Len(parts) |-> normalize_code(parts[i])]

split_inputs(text) ==
    IF text = None \/ text = <<>>
    THEN <<>>
    ELSE LET parts == SelectSeq(ReSplit(text), NormalizesNonEmpty)
         IN  [i \in 1..Len(parts) |-> normalize_code(parts[i])]

----------------------------------------------------------------------------
(* The two pure functions, called on every text up to MaxLen characters *)

Alphabet == {"a", "A", "1", " ", "\t", "\n", ",", ";"}

RECURSIVE StringsUpTo(_)
StringsUpTo(n) ==
    IF n = 0
    THEN {<<>>}
    ELSE LET shorter == StringsUpTo(n - 1)
         IN  shorter \cup {Append(s, ch) : s \in shorter, ch \in Alphabet}

TextInputs == StringsUpTo(MaxLen) \cup {None}

InitPure ==
    /\ raw_text \in TextInputs
    /\ pc = "input"
    /\ source = [columns |-> {}, rows |-> <<>>]
    /\ df = <<>>
    /\ loadError = "none"
    /\ mode = CIAP_TO_CID
    /\ codes = <<>>
    /\ df_out = <<>>
    /\ rendered = <<>>
    /\ normalized = <<>>

CallNormalize ==
    /\ pc = "input"
    /\ normalized' = normalize_code(raw_text)
    /\ pc' = "normalized"
    /\ UNCHANGED <<source, df, loadError, mode, raw_text, codes, df_out, rendered>>

CallSplitInputs ==
    /\ pc = "input"
    /\ codes' = split_inputs(raw_text)
    /\ pc' = "split"
    /\ UNCHANGED <<source, df, loadError, mode, raw_text, df_out, rendered, normalized>>

NextPure == CallNormalize \/ CallSplitInputs

SpecPure == InitPure /\ [][NextPure]_vars

----------------------------------------------------------------------------
(* C7: normalize_code is idempotent: normalizing what normalize_code       *)
(* returned, for any string (with leading, trailing and internal spaces,   *)
(* tabs and newlines) and for None, returns it unchanged.                  *)
C7_NormalizeIdempotent ==
    pc = "normalized" => normalize_code(normalized) = normalized

\* A text of full length that starts with whitespace and ends with a
\* lower-case letter has been normalized to that letter in upper case.
C7_Witness ==
    /\ pc = "normalized"
    /\ raw_text # None
    /\ Len(raw_text) = MaxLen
    /\ Head(raw_text) \in Whitespace
    /\ raw_text[Len(raw_text)] = "a"
    /\ normalized = <<"A">>

----------------------------------------------------------------------------
(* Fragments of a text, stated on its positions *)

\* The separators and the fragments between runs of them.
ClaimSeparators == {",", ";", "\t", "\n"}

FragmentStarts(t) ==
    {i \in 1..Len(t) : t[i] \notin ClaimSeparators
                       /\ (i = 1 \/ t[i - 1] \in ClaimSeparators)}

FragmentEnd(t, i) ==
    CHOOSE j \in i..Len(t) :
        /\ \A k \in i..j : t[k] \notin ClaimSeparators
        /\ j = Len(t) \/ t[j + 1] \in ClaimSeparators

\* The starts of the fragments whose normalized form is not empty.
KeptStarts(t) ==
    {i \in FragmentStarts(t) :
        normalize_code(SubSeq(t, i, FragmentEnd(t, i))) # <<>>}

\* The n-th least element of a set of numbers.
NthLeast(S, n) == CHOOSE x \in S : Cardinality({y \in S : y < x}) = n - 1

(* C10: split_inputs returns, in order of appearance, normalize_code(f) for *)
(* exactly the fragments f between runs of comma, semicolon, tab or newline *)
(* whose normalized form is not empty; every returned code is non-empty and *)
(* a fixed point of normalize_code; an empty text, or one made only of      *)
(* separators and whitespace, gives the empty list.                         *)
C10_SplitInputs ==
    pc = "split" =>
        LET t == IF raw_text = None THEN <<>> ELSE raw_text
            kept == KeptStarts(t)
        IN  /\ Len(codes) = Cardinality(kept)
            /\ \A n \in 1..Len(codes) :
                  LET i == NthLeast(kept, n)
                  IN  /\ codes[n] = normalize_code(SubSeq(t, i, FragmentEnd(t, i)))
                      /\ codes[n] # <<>>
                      /\ normalize_code(codes[n]) = codes[n]
            /\ (\A i \in 1..Len(t) : t[i] \in ClaimSeparators \cup Whitespace)
                  => codes = <<>>

\* Two fragments were kept, in order, with an empty fragment between the
\* separators dropped.
C10_Witness ==
    /\ pc = "split"
    /\ raw_text = <<"a", ",", "1">>
    /\ codes = <<<<"A">>, <<"1">>>>

----------------------------------------------------------------------------
(* load_base *)

ColumnNames == {"CIAP", "DescricaoCIAP", "CID10", "DescricaoCID"}

required == {"CIAP", "CID10"}

OptionalColumns == {"DescricaoCIAP", "DescricaoCID"}

\* "not required.issubset(df.columns)": load_base raises ValueError.
LoadRaises(src) == ~(required \subseteq src.columns)

\* A row with each missing description column created as NaN, not as "".
WithOptionalNaN(row, columns) ==
    [c \in columns \cup OptionalColumns |-> IF c \in columns THEN row[c] ELSE NaN]

\* df["DescricaoCIAP"] = "" and df["DescricaoCID"] = "" when the column is
\* missing, seen on one row.
WithOptional(row, columns) ==
    [c \in columns \cup OptionalColumns |-> IF c \in columns THEN row[c] ELSE <<>>]

\* Series.astype(str) on one cell: str(float("nan")) is "nan".
AsTypeStr(v) == IF v = NaN THEN <<"n", "a", "n">> ELSE v

\* One row of the returned frame: the optional columns, then CIAP_N and CID10_N.
LoadRow(row, columns) ==
    LET r == WithOptional(row, columns)
    IN  r @@ ("CIAP_N" :> normalize_code(AsTypeStr(r["CIAP"])))
          @@ ("CID10_N" :> normalize_code(AsTypeStr(r["CID10"])))

\* What load_base returns when it does not raise.
load_base(src) == [i \in 1..Len(src.rows) |-> LoadRow(src.rows[i], src.columns)]

----------------------------------------------------------------------------
(* lookup *)

\* The column each branch of lookup searches.
NormColumn(m) == IF m = CIAP_TO_CID THEN "CIAP_N" ELSE "CID10_N"

\* Only the first matching row (hit.iloc[:1]).
HitFirst(table, m, c) ==
    LET IsHit(row) == row[NormColumn(m)] = c
        hit == SelectSeq(table, IsHit)
    IN  IF Len(hit) = 0 THEN hit ELSE <<Head(hit)>>

\* hit = df.loc[df["CIAP_N"] == c]  (df["CID10_N"] in the else branch)
Hit(table, m, c) ==
    LET IsHit(row) == row[NormColumn(m)] = c
    IN  SelectSeq(table, IsHit)

\* The not-found dict of the CIAP branch, used in both branches.
NotFoundRecordCiapSlot(m, c) ==
    [Entrada |-> c, Tipo |-> IF m = CIAP_TO_CID THEN "CIAP" ELSE "CID",
     Resultado |-> NAO_ENCONTRADO,
     CIAP |-> c, DescricaoCIAP |-> <<>>, CID10 |-> <<>>, DescricaoCID |-> <<>>]

\* The dict appended when hit.empty.
NotFoundRecord(m, c) ==
    IF m = CIAP_TO_CID
    THEN [Entrada |-> c, Tipo |-> "CIAP", Resultado |-> NAO_ENCONTRADO,
          CIAP |-> c, DescricaoCIAP |-> <<>>, CID10 |-> <<>>, DescricaoCID |-> <<>>]
    ELSE [Entrada |-> c, Tipo |-> "CID", Resultado |-> NAO_ENCONTRADO,
          CIAP |-> <<>>, DescricaoCIAP |-> <<>>, CID10 |-> c, DescricaoCID |-> <<>>]

\* The dict appended for one row of hit.
RowRecord(m, c, row) ==
    [Entrada |-> c,
     Tipo |-> IF m = CIAP_TO_CID THEN "CIAP" ELSE "CID",
     Resultado |-> IF m = CIAP_TO_CID THEN row["CID10"] ELSE row["CIAP"],
     CIAP |-> row["CIAP"], DescricaoCIAP |-> row["DescricaoCIAP"],
     CID10 |-> row["CID10"], DescricaoCID |-> row["DescricaoCID"]]

\* The body of "for c in codes": what one code appends to results.
LookupOne(table, m, c) ==
    LET hit == Hit(table, m, c)
    IN  IF Len(hit) = 0
        THEN <<NotFoundRecord(m, c)>>
        ELSE [i \in 1..Len(hit) |-> RowRecord(m, c, hit[i])]

RECURSIVE Concat(_)
Concat(seqs) == IF seqs = <<>> THEN <<>> ELSE Head(seqs) \o Concat(Tail(seqs))

\* A sequence without the later occurrences of its elements.
RECURSIVE Dedup(_)
Dedup(s) ==
    IF s = <<>>
    THEN <<>>
    ELSE LET front == SubSeq(s, 1, Len(s) - 1)
             last == s[Len(s)]
         IN  IF \E i \in 1..Len(front) : front[i] = last
             THEN Dedup(front)
             ELSE Append(Dedup(front), last)

\* lookup over dict.fromkeys(codes): each distinct code once.
lookup_dedup(table, m, cs) ==
    LET d == Dedup(cs)
    IN  Concat([i \in 1..Len(d) |-> LookupOne(table, m, d[i])])

\* lookup(df, mode, codes): results, in the order the loops append.
lookup(table, m, cs) ==
    Concat([i \in 1..Len(cs) |-> LookupOne(table, m, cs[i])])

----------------------------------------------------------------------------
(* The rendering loop over df_out *)

RenderRecord(r) ==
    IF r.Resultado = NAO_ENCONTRADO
    THEN [kind |-> "warning", Tipo |-> r.Tipo, Entrada |-> r.Entrada]
    ELSE [kind |-> "info", CIAP |-> r.CIAP, CID10 |-> r.CID10,
          DescricaoCIAP |-> r.DescricaoCIAP, DescricaoCID |-> r.DescricaoCID]

Render(out) == [i \in 1..Len(out) |-> RenderRecord(out[i])]

\* st.warning("Digite pelo menos um codigo.") before st.stop().
NoCodesWarning == [kind |-> "no_codes"]

----------------------------------------------------------------------------
(* The CSV files *)

RowA ==
    [CIAP |-> <<"A", "1">>, DescricaoCIAP |-> <<"x">>,
     CID10 |-> <<"B", "2">>, DescricaoCID |-> <<"y">>]

\* The codes of RowA in another case and spacing.
RowB ==
    [CIAP |-> <<" ", "a", " ", "1">>, DescricaoCIAP |-> NaN,
     CID10 |-> <<"b", "2", " ">>, DescricaoCID |-> <<"y">>]

\* A tab inside the CIAP code.
RowC ==
    [CIAP |-> <<"a", "\t", "1">>, DescricaoCIAP |-> <<"x">>,
     CID10 |-> <<"C", "3">>, DescricaoCID |-> NaN]

\* An empty CIAP cell.
RowD ==
    [CIAP |-> NaN, DescricaoCIAP |-> <<"x">>,
     CID10 |-> <<"B", "2">>, DescricaoCID |-> <<"y">>]

\* An empty CID10 cell.
RowE ==
    [CIAP |-> <<"C", "3">>, DescricaoCIAP |-> <<"x">>,
     CID10 |-> NaN, DescricaoCID |-> <<"y">>]

\* Rows that store the not-found text as a code.
RowF ==
    [CIAP |-> <<"A", "1">>, DescricaoCIAP |-> <<"x">>,
     CID10 |-> NAO_ENCONTRADO, DescricaoCID |-> <<"y">>]

RowG ==
    [CIAP |-> NAO_ENCONTRADO, DescricaoCIAP |-> <<"x">>,
     CID10 |-> <<"B", "2">>, DescricaoCID |-> <<"y">>]

SourceRows == {RowA, RowB, RowC, RowD, RowE, RowF, RowG}

RECURSIVE SeqsUpTo(_, _)
SeqsUpTo(S, n) ==
    IF n = 0
    THEN {<<>>}
    ELSE LET shorter == SeqsUpTo(S, n - 1)
         IN  shorter \cup {Append(s, x) : s \in shorter, x \in S}

\* What pd.read_csv returns for a file with the given columns and rows.
ReadCsv(columns, rows) ==
    [columns |-> columns,
     rows |-> [i \in 1..Len(rows) |-> [c \in columns |-> rows[i][c]]]]

Sources ==
    {ReadCsv(columns, rows) :
        columns \in SUBSET ColumnNames, rows \in SeqsUpTo(SourceRows, MaxRows)}

\* The files lookup is called on directly: all four columns, and rows with
\* equal codes in different case and spacing, a tab inside a code, an empty cell.
LookupRows == {RowA, RowB, RowC, RowD}

FullSources ==
    {ReadCsv(ColumnNames, rows) : rows \in SeqsUpTo(LookupRows, MaxRows)}

----------------------------------------------------------------------------
(* lookup called directly on a loaded table *)

\* Codes given to lookup: normalized ones that match, one that is not
\* normalized, one that matches nothing.
Codes == {<<"A", "1">>, <<"a", "1">>, <<"B", "2">>, <<"Z", "9">>}

\* Codes as a user types them, before normalize_code.
Queries ==
    {<<" ", "A", " ", "1", " ">>, <<"a", "\t", "1">>, <<"\n", "b", "2">>,
     <<"n", "a", "n">>}

InitLookup ==
    /\ source \in FullSources
    /\ df = load_base(source)
    /\ loadError = "none"
    /\ pc = "loaded"
    /\ mode = CIAP_TO_CID
    /\ raw_text = <<>>
    /\ codes = <<>>
    /\ df_out = <<>>
    /\ rendered = <<>>
    /\ normalized = <<>>

\* A lookup that drops the rows it found from the table
\* (df.drop(hit.index, inplace=True)).
CallLookupInPlace(m, cs) ==
    /\ pc \in {"loaded", "looked_up", "queried"}
    /\ mode' = m
    /\ codes' = cs
    /\ df_out' = lookup(df, m, cs)
    /\ df' = LET Kept(row) == \A i \in 1..Len(cs) : row[NormColumn(m)] # cs[i]
             IN  SelectSeq(df, Kept)
    /\ raw_text' = <<>>
    /\ normalized' = <<>>
    /\ pc' = "looked_up"
    /\ UNCHANGED <<source, loadError, rendered>>

\* df_out = lookup(df_base, mode, codes), for any codes.
CallLookup(m, cs) ==
    /\ pc \in {"loaded", "looked_up", "queried"}
    /\ mode' = m
    /\ codes' = cs
    /\ df_out' = lookup(df, m, cs)
    /\ raw_text' = <<>>
    /\ normalized' = <<>>
    /\ pc' = "looked_up"
    /\ UNCHANGED <<source, df, loadError, rendered>>

\* One typed code, normalized and looked up.
Query(m, q) ==
    /\ pc \in {"loaded", "looked_up", "queried"}
    /\ mode' = m
    /\ raw_text' = q
    /\ normalized' = normalize_code(q)
    /\ codes' = <<normalize_code(q)>>
    /\ df_out' = lookup(df, m, codes')
    /\ pc' = "queried"
    /\ UNCHANGED <<source, df, loadError, rendered>>

NextLookup ==
    \/ \E m \in Modes, cs \in SeqsUpTo(Codes, MaxCodes) : CallLookup(m, cs)
    \/ \E m \in Modes, q \in Queries : Query(m, q)

SpecLookup == InitLookup /\ [][NextLookup]_vars

----------------------------------------------------------------------------
(* The app: one run of the script per user interaction *)

\* The text area contents.
Texts ==
    {<<>>,
     <<"a", "1">>,
     <<" ", "A", "1", ",", "z", "9">>,
     <<"b", "2", ";", ";", "B", " ", "2", "\n">>,
     <<"n", "a", "n">>,
     <<" ", ",", "\n">>}

Init ==
    /\ source \in Sources
    /\ df = <<>>
    /\ loadError = "none"
    /\ pc = "start"
    /\ mode = CIAP_TO_CID
    /\ raw_text = <<>>
    /\ codes = <<>>
    /\ df_out = <<>>
    /\ rendered = <<>>
    /\ normalized = <<>>

\* The first run: load_base reads the CSV; the widgets hold their defaults
\* (first radio option, empty text area, button not pressed).  When load_base
\* raises, the script stops there, and so does every later run.
FirstRun ==
    /\ pc = "start"
    /\ IF LoadRaises(source)
       THEN /\ loadError' = "ValueError"
            /\ pc' = "failed"
            /\ UNCHANGED df
       ELSE /\ df' = load_base(source)
            /\ pc' = "idle"
            /\ UNCHANGED loadError
    /\ UNCHANGED <<source, mode, raw_text, codes, df_out, rendered, normalized>>

\* A later run: load_base is served from st.cache_data; the script reads the
\* widgets, splits the text and, when the button was pressed, looks the codes
\* up and renders the records.
Rerun(m, t, do_search) ==
    /\ pc = "idle"
    /\ mode' = m
    /\ raw_text' = t
    /\ codes' = split_inputs(t)
    /\ IF do_search
       THEN IF codes' = <<>>
            THEN /\ df_out' = <<>>
                 /\ rendered' = <<NoCodesWarning>>
            ELSE /\ df_out' = lookup(df, m, codes')
                 /\ rendered' = Render(df_out')
       ELSE /\ df_out' = <<>>
            /\ rendered' = <<>>
    /\ UNCHANGED <<source, df, loadError, pc, normalized>>

Next ==
    \/ FirstRun
    \/ \E m \in Modes, t \in Texts, do_search \in BOOLEAN : Rerun(m, t, do_search)

Spec == Init /\ [][Next]_vars

----------------------------------------------------------------------------
(* What the claims speak of, stated on the state *)

\* The normalized column of the direction: normA for A_TO_B, normB for B_TO_A.
SelectedColumn == IF mode = CIAP_TO_CID THEN "CIAP_N" ELSE "CID10_N"

\* The rows whose selected normalized column equals c.
MatchingRows(c) == {j \in 1..Len(df) : df[j][SelectedColumn] = c}

\* How often c was queried, and the records emitted for it.
Occurrences(c) == Cardinality({p \in 1..Len(codes) : codes[p] = c})
RecordsFor(c) == {i \in 1..Len(df_out) : df_out[i].Entrada = c}

\* Record r carries the stored codeA, descA, codeB, descB of the row.
CarriesRow(r, row) ==
    /\ r.CIAP = row["CIAP"]
    /\ r.DescricaoCIAP = row["DescricaoCIAP"]
    /\ r.CID10 = row["CID10"]
    /\ r.DescricaoCID = row["DescricaoCID"]

SameStored(row1, row2) == \A c \in ColumnNames : row1[c] = row2[c]

AfterLookup == pc \in {"looked_up", "queried"}

----------------------------------------------------------------------------
(* C1: a queried code c that k >= 1 rows match (exact equality on the      *)
(* selected normalized column) gets exactly k records per time it was      *)
(* queried, one per matching row and none for any other row, each with     *)
(* Entrada = c and the row's stored CIAP, DescricaoCIAP, CID10 and         *)
(* DescricaoCID.                                                           *)
C1_MatchedRecords ==
    AfterLookup =>
        \A p \in 1..Len(codes) :
            LET c == codes[p]
                M == MatchingRows(c)
                R == RecordsFor(c)
            IN  M # {} =>
                    /\ Cardinality(R) = Cardinality(M) * Occurrences(c)
                    /\ \A i \in R : \E j \in M : CarriesRow(df_out[i], df[j])
                    /\ \A j \in M :
                          Cardinality({i \in R : CarriesRow(df_out[i], df[j])})
                              = Occurrences(c)
                                  * Cardinality({j2 \in M : SameStored(df[j2], df[j])})

\* One code matched two rows that store it in different case and spacing, and
\* the second record carries the second row's raw code.
C1_Witness ==
    /\ pc = "looked_up"
    /\ mode = CIAP_TO_CID
    /\ codes = <<<<"A", "1">>>>
    /\ Len(df) = 2
    /\ Len(df_out) = 2
    /\ df_out[1].CIAP = <<"A", "1">>
    /\ df_out[2].CIAP = <<" ", "a", " ", "1">>

----------------------------------------------------------------------------
(* C2: a queried code c that no row matches gets exactly one record per    *)
(* time it was queried: Resultado is the not-found text, Entrada is c, and *)
(* the four code and description fields are empty except the queried slot, *)
(* which holds c (CIAP for CIAP -> CID, CID10 for CID -> CIAP).            *)
C2_NotFoundRecord ==
    AfterLookup =>
        \A p \in 1..Len(codes) :
            LET c == codes[p]
                R == RecordsFor(c)
            IN  MatchingRows(c) = {} =>
                    /\ Cardinality(R) = Occurrences(c)
                    /\ \A i \in R :
                          /\ df_out[i].Resultado = NAO_ENCONTRADO
                          /\ df_out[i].CIAP = IF mode = CIAP_TO_CID THEN c ELSE <<>>
                          /\ df_out[i].CID10 = IF mode = CID_TO_CIAP THEN c ELSE <<>>
                          /\ df_out[i].DescricaoCIAP = <<>>
                          /\ df_out[i].DescricaoCID = <<>>

\* A code that matches nothing was looked up from CID to CIAP in a table that
\* has rows, together with a code that matches.
C2_Witness ==
    /\ pc = "looked_up"
    /\ mode = CID_TO_CIAP
    /\ codes = <<<<"B", "2">>, <<"Z", "9">>>>
    /\ Len(df) = 2
    /\ df_out[Len(df_out)].CID10 = <<"Z", "9">>
    /\ df_out[Len(df_out)].CIAP = <<>>

----------------------------------------------------------------------------
(* The groups of a result *)

\* The number of records one queried code gets.
GroupLen(c) ==
    IF MatchingRows(c) = {} THEN 1 ELSE Cardinality(MatchingRows(c))

\* Where the group of position p starts: the lengths of the groups before it.
RECURSIVE GroupOffset(_)
GroupOffset(p) ==
    IF p = 1 THEN 0 ELSE GroupOffset(p - 1) + GroupLen(codes[p - 1])

(* C3: the result is the concatenation, in the order of codes, of one      *)
(* group per position of codes; inside a group the records follow the row  *)
(* order of the table; a code given twice gets two full groups; no codes,  *)
(* no records.                                                             *)
C3_GroupsInOrder ==
    AfterLookup =>
        /\ Len(df_out) = GroupOffset(Len(codes) + 1)
        /\ \A p \in 1..Len(codes) :
              \A n \in 1..GroupLen(codes[p]) :
                  LET r == df_out[GroupOffset(p) + n]
                      M == MatchingRows(codes[p])
                  IN  /\ r.Entrada = codes[p]
                      /\ M # {} => CarriesRow(r, df[NthLeast(M, n)])
        /\ codes = <<>> => df_out = <<>>

\* The same code twice, matching two rows: two groups of two records.
C3_Witness ==
    /\ pc = "looked_up"
    /\ Len(codes) = 2
    /\ codes[1] = codes[2]
    /\ Cardinality(MatchingRows(codes[1])) = 2
    /\ Len(df_out) = 4
    /\ df[1] # df[2]

----------------------------------------------------------------------------
(* Strings that differ only by case and whitespace *)

IsNotWhitespace(ch) == ch \notin Whitespace

\* A string without its whitespace, in upper case: two strings differ only by
\* case and whitespace when they fold to the same string.
Fold(s) == Upper(SelectSeq(s, IsNotWhitespace))

(* C4: a typed code that differs from a row's raw code, in the queried     *)
(* direction, only by letter case and by whitespace of any kind (leading,  *)
(* trailing or internal), normalized with normalize_code and looked up,    *)
(* gets a record of that row.                                              *)
C4_CaseAndSpacingNeverNotFound ==
    pc = "queried" =>
        \A j \in 1..Len(source.rows) :
            LET raw == source.rows[j][IF mode = CIAP_TO_CID THEN "CIAP" ELSE "CID10"]
            IN  (raw # NaN /\ Fold(raw) = Fold(raw_text)) =>
                    \E i \in 1..Len(df_out) :
                        /\ df_out[i].Entrada = normalize_code(raw_text)
                        /\ CarriesRow(df_out[i], df[j])

----------------------------------------------------------------------------
(* C8: lookup never changes the loaded table: after any lookup calls the   *)
(* rows, their order and every column, CIAP_N and CID10_N included, are    *)
(* what load_base returned.                                                *)
C8_TableUnchanged ==
    AfterLookup => df = load_base(source)

\* A lookup that matched rows and missed a code has run on a two-row table.
C8_Witness ==
    /\ pc = "looked_up"
    /\ Len(df) = 2
    /\ Len(codes) = 2
    /\ MatchingRows(codes[1]) # {}
    /\ MatchingRows(codes[2]) = {}

----------------------------------------------------------------------------
(* C5: load_base raises ValueError and returns no table exactly when CIAP  *)
(* or CID10 is missing from the file; otherwise it succeeds, the rows keep *)
(* their order and values, and each description column the file lacks is   *)
(* there with the empty string on every row.                               *)
C5_LoadSchema ==
    pc \in {"idle", "failed"} =>
        /\ (loadError = "ValueError")
              <=> ~("CIAP" \in source.columns /\ "CID10" \in source.columns)
        /\ (loadError = "ValueError") <=> (pc = "failed")
        /\ pc = "failed" => df = <<>>
        /\ pc = "idle" =>
              /\ Len(df) = Len(source.rows)
              /\ \A i \in 1..Len(df) :
                    /\ \A c \in source.columns : df[i][c] = source.rows[i][c]
                    /\ \A c \in {"DescricaoCIAP", "DescricaoCID"} \ source.columns :
                          df[i][c] = <<>>

\* A file without DescricaoCIAP, with two different rows, was loaded.
C5_Witness ==
    /\ pc = "idle"
    /\ source.columns = {"CIAP", "CID10", "DescricaoCID"}
    /\ Len(df) = 2
    /\ df[1]["CIAP"] # df[2]["CIAP"]
    /\ df[1]["DescricaoCIAP"] = <<>>

----------------------------------------------------------------------------
(* C6: a row whose CIAP or CID10 cell is empty in the file gets the empty  *)
(* string as its CIAP_N or CID10_N, as normalize_code gives for None, so   *)
(* that no non-empty code matches it.                                      *)
C6_NullCodeNormalizesEmpty ==
    pc = "idle" =>
        \A i \in 1..Len(df) :
            /\ source.rows[i]["CIAP"] = NaN => df[i]["CIAP_N"] = <<>>
            /\ source.rows[i]["CID10"] = NaN => df[i]["CID10_N"] = <<>>

----------------------------------------------------------------------------
(* C9: a record carries the not-found text as its Resultado, and is shown  *)
(* as a warning, if and only if its code matched no row.                   *)
C9_NotFoundIffNoMatch ==
    (pc = "idle" /\ df_out # <<>>) =>
        \A i \in 1..Len(df_out) :
            /\ (df_out[i].Resultado = NAO_ENCONTRADO)
                  <=> (MatchingRows(df_out[i].Entrada) = {})
            /\ (rendered[i].kind = "warning")
                  <=> (MatchingRows(df_out[i].Entrada) = {})

====
